---- MODULE Spec2Model ----
(***************************************************************************)
(* A model of configlet: the Track reconciler (track.go), the manifest     *)
(* loader (config.go) and the command-line driver (main.go).               *)
(*                                                                         *)
(* Strings are sequences of one-character strings, so that the first-byte  *)
(* test of isHiddenDir, the byte order of sort.Strings and the regexp      *)
(* search over a file's full path are computed as the code computes them.  *)
(***************************************************************************)
EXTENDS Integers, Sequences, FiniteSets, TLC

VARIABLES root, file, fs, track, last

vars == <<root, file, fs, track, last>>

(***************************************************************************)
(* Bounds of the model.                                                    *)
(***************************************************************************)
\* the number of slug entries of the manifest, over its three lists
MaxSlugs == 2

(***************************************************************************)
(* Strings.                                                                *)
(***************************************************************************)
Byte(c) ==
    CASE c = "." -> 46 [] c = "/" -> 47 [] c = "E" -> 69 [] c = "[" -> 91
      [] c = "]" -> 93 [] c = "_" -> 95 [] c = "a" -> 97 [] c = "b" -> 98
      [] c = "c" -> 99 [] c = "e" -> 101 [] c = "g" -> 103 [] c = "i" -> 105
      [] c = "j" -> 106 [] c = "k" -> 107 [] c = "l" -> 108 [] c = "m" -> 109
      [] c = "n" -> 110 [] c = "o" -> 111 [] c = "p" -> 112 [] c = "r" -> 114
      [] c = "s" -> 115 [] c = "t" -> 116 [] c = "u" -> 117 [] c = "x" -> 120

\* Go's string comparison: byte-wise lexicographic, a proper prefix first.
RECURSIVE StrLess(_, _)
StrLess(a, b) ==
    IF a = <<>> THEN b # <<>>
    ELSE IF b = <<>> THEN FALSE
    ELSE IF Byte(Head(a)) # Byte(Head(b)) THEN Byte(Head(a)) < Byte(Head(b))
    ELSE StrLess(Tail(a), Tail(b))

Range(s) == {s[i] : i \in DOMAIN s}

\* the sequences that list every element of the set S exactly once
Orderings(S) ==
    {s \in [1..Cardinality(S) -> S] : Range(s) = S}

\* sort.Strings on a sequence without repeated elements
SortStrings(S) ==
    CHOOSE s \in Orderings(S) :
        \A i \in 1..(Len(s) - 1) : StrLess(s[i], s[i + 1])

Slash == <<"/">>

\* the names used by the model's manifests and filesystems
bob == <<"b", "o", "b">>
example == <<"e", "x", "a", "m", "p", "l", "e">>
exercisesName == <<"e", "x", "e", "r", "c", "i", "s", "e", "s">>
dotMeta == <<".", "m", "e", "t", "a">>
sub == <<"s", "u", "b">>
solutionGo == <<"s", "o", "l", "u", "t", "i", "o", "n", ".", "g", "o">>
exampleSolutionGo == example \o <<"_">> \o solutionGo
trackPath == <<"t", "r", "a", "c", "k">>
ExamplePath == <<"E", "x", "a", "m", "p", "l", "e">>
defaultPattern == <<"[", "E", "e", "]", "x", "a", "m", "p", "l", "e">>
badPattern == <<"[", "E", "e">>

\* where a track may live
Roots == {trackPath, ExamplePath}

Names == {bob, example, exercisesName, dotMeta}

\* what a directory exercises/<name> may hold: the set of its files, each the
\* sequence of names from the exercise directory down to the file
Contents(name) ==
    CASE name = bob ->
             { {}, {<<solutionGo>>}, {<<exampleSolutionGo>>},
               {<<sub, exampleSolutionGo>>} }
      [] name = example -> { {<<solutionGo>>} }
      [] name = exercisesName -> { {} }
      [] name = dotMeta -> { {<<exampleSolutionGo>>} }

NoErr == "nil"

(***************************************************************************)
(* config.go: the manifest loader.                                         *)
(***************************************************************************)
\* the value of an optional field that config.json does not give
Absent == "absent"

NewConfig ==
    [Exercises |-> <<>>, Deprecated |-> <<>>, Foregone |-> <<>>,
     SolutionPattern |-> defaultPattern]

\* f is the state of <root>/config.json: missing, not JSON, or a document
Load(f) ==
    IF f.state = "missing" THEN [c |-> NewConfig, err |-> "ReadError"]
    ELSE IF f.state = "malformed" THEN [c |-> NewConfig, err |-> "ParseError"]
    ELSE [c |-> [Exercises |-> f.exercises,
                 Deprecated |-> f.deprecated,
                 Foregone |-> f.foregone,
                 SolutionPattern |->
                     IF f.solution_pattern = Absent
                     THEN NewConfig.SolutionPattern
                     ELSE f.solution_pattern],
          err |-> NoErr]

ConfigSlugs(c) == [i \in 1..Len(c.Exercises) |-> c.Exercises[i].slug]

\* json.MarshalIndent of a Config: every field is a bool, a string, a list
\* of strings or a value json.Unmarshal produced, so encoding never fails
MarshalIndent(c) == NoErr

(***************************************************************************)
(* The filesystem: whether <root>/exercises exists, and for each directory *)
(* immediately under it the set of files below it.                         *)
(***************************************************************************)
Join(path, name) == path \o Slash \o name

ExercisesPath(path) == Join(path, exercisesName)

\* the directories under exercises/, as os.Stat and ioutil.ReadDir see them
Entries(d) == IF d.exists THEN DOMAIN d.dirs ELSE {}

\* the directory at the given path: whether there is one, and its files
Resolve(d, at, path) ==
    IF \E n \in Entries(d) : Join(ExercisesPath(at), n) = path
    THEN [exists |-> TRUE,
          node |-> d.dirs[CHOOSE n \in Entries(d) :
                             Join(ExercisesPath(at), n) = path]]
    ELSE [exists |-> FALSE, node |-> {}]

isHiddenDir(name) == Byte(name[1]) # 46

(***************************************************************************)
(* regexp: the patterns are literals and bracket classes.                  *)
(***************************************************************************)
CloseAt(src) ==
    IF \E j \in 2..Len(src) : src[j] = "]"
    THEN CHOOSE j \in 2..Len(src) :
             src[j] = "]" /\ \A k \in 2..(j - 1) : src[k] # "]"
    ELSE 0

RECURSIVE Compile(_)
Compile(src) ==
    IF src = <<>> THEN [re |-> <<>>, err |-> NoErr]
    ELSE IF Head(src) = "["
    THEN IF CloseAt(src) = 0
         THEN [re |-> <<>>, err |-> "PatternError"]
         ELSE LET j == CloseAt(src)
                  rest == Compile(SubSeq(src, j + 1, Len(src)))
              IN  [re |-> <<{src[k] : k \in 2..(j - 1)}>> \o rest.re,
                   err |-> rest.err]
    ELSE LET rest == Compile(Tail(src))
         IN  [re |-> <<{Head(src)}>> \o rest.re, err |-> rest.err]

\* len(r.Find(s)) > 0: the pattern matches a non-empty part of s
Find(re, s) ==
    /\ Len(re) > 0
    /\ \E k \in 0..(Len(s) - Len(re)) :
           \A i \in 1..Len(re) : s[k + i] \in re[i]

(***************************************************************************)
(* track.go: the reconciler.  A Track is [path, dirs]; a query returns     *)
(* [result, err].                                                          *)
(***************************************************************************)
TrackConfig(f) == Load(f)

HasValidConfig(f) ==
    LET c == TrackConfig(f)
        err == MarshalIndent(c.c)
    IN  err = NoErr

Problems(f) ==
    LET c == TrackConfig(f)
    IN  IF c.err # NoErr THEN [set |-> {}, err |-> c.err]
        ELSE [set |-> Range(ConfigSlugs(c.c)), err |-> NoErr]

TrackSlugs(f) ==
    LET c == TrackConfig(f)
    IN  IF c.err # NoErr THEN [set |-> {}, err |-> c.err]
        ELSE [set |-> Range(ConfigSlugs(c.c)) \cup Range(c.c.Deprecated)
                          \cup Range(c.c.Foregone),
              err |-> NoErr]

Dirs(d) ==
    IF ~d.exists THEN [set |-> {}, err |-> NoErr]
    ELSE [set |-> {n \in Entries(d) : n # exercisesName /\ isHiddenDir(n)},
          err |-> NoErr]

NoDirs == [slug \in {} |-> <<>>]

NewTrack(f, d, path) ==
    LET slugs == TrackSlugs(f)
    IN  IF slugs.err # NoErr
        THEN [t |-> [path |-> path, dirs |-> NoDirs], err |-> slugs.err]
        ELSE [t |-> [path |-> path,
                     dirs |-> [slug \in {s \in slugs.set :
                                            s \in Entries(d) /\ isHiddenDir(s)}
                                  |-> Join(ExercisesPath(path), slug)]],
              err |-> NoErr]

\* a Go map is ranged over in an unspecified order: a result built by
\* ranging over a set may come back in any order
Returns(S, err) == {[result |-> s, err |-> err] : s \in Orderings(S)}

MissingProblems(f, d) ==
    LET dirs == Dirs(d)
        problems == Problems(f)
    IN  IF dirs.err # NoErr THEN {[result |-> <<>>, err |-> dirs.err]}
        ELSE IF problems.err # NoErr
        THEN {[result |-> <<>>, err |-> problems.err]}
        ELSE Returns({p \in problems.set : p \notin dirs.set}, NoErr)

UnconfiguredProblems(f, d) ==
    LET dirs == Dirs(d)
        slugs == TrackSlugs(f)
    IN  IF dirs.err # NoErr THEN {[result |-> <<>>, err |-> dirs.err]}
        ELSE IF slugs.err # NoErr THEN {[result |-> <<>>, err |-> slugs.err]}
        ELSE Returns({dir \in dirs.set : dir \notin slugs.set}, NoErr)

\* the elements of s that satisfy Keep, in the order of s
RECURSIVE Filter(_, _)
Filter(s, keep) ==
    IF s = <<>> THEN <<>>
    ELSE (IF Head(s) \in keep THEN <<Head(s)>> ELSE <<>>)
             \o Filter(Tail(s), keep)

ForegoneViolations(f, d) ==
    LET c == TrackConfig(f)
        dirs == Dirs(d)
    IN  IF c.err # NoErr THEN [result |-> <<>>, err |-> c.err]
        ELSE IF dirs.err # NoErr THEN [result |-> <<>>, err |-> dirs.err]
        ELSE [result |-> Filter(c.c.Foregone, dirs.set), err |-> NoErr]

\* counts[slug] after the three loops of DuplicateSlugs
Count(s, slug) == Cardinality({i \in DOMAIN s : s[i] = slug})

DuplicateSlugs(f) ==
    LET c == TrackConfig(f)
        all == ConfigSlugs(c.c) \o c.c.Deprecated \o c.c.Foregone
    IN  IF c.err # NoErr THEN [result |-> <<>>, err |-> c.err]
        ELSE [result |-> SortStrings({slug \in Range(all) : Count(all, slug) > 1}),
              err |-> NoErr]

hasExampleFile(f, files) ==
    LET c == TrackConfig(f)
        r == Compile(c.c.SolutionPattern)
    IN  IF c.err # NoErr THEN [found |-> FALSE, err |-> c.err]
        ELSE IF r.err # NoErr THEN [found |-> FALSE, err |-> r.err]
        ELSE IF \E i \in DOMAIN files : Find(r.re, files[i])
        THEN [found |-> TRUE, err |-> NoErr]
        ELSE [found |-> FALSE, err |-> NoErr]

\* ioutil.ReadDir of a directory whose files are `node`: its entries sorted
\* by name
ReadDir(node) == SortStrings({Head(p) : p \in node})

IsDir(node, name) == \E p \in node : Head(p) = name /\ Len(p) > 1

\* findAllFiles(path) where dir is the directory at path; walkInfos is its
\* loop over the rest of infos
RECURSIVE findAllFiles(_, _), walkInfos(_, _, _, _)
findAllFiles(path, dir) ==
    IF ~dir.exists THEN [files |-> <<>>, err |-> "ReadError"]
    ELSE walkInfos(path, dir.node, ReadDir(dir.node), <<>>)

\* walkInfos without the descent into subdirectories
walkInfosFlat(path, node, infos, files) ==
    IF infos = <<>> THEN [files |-> files, err |-> NoErr]
    ELSE IF IsDir(node, Head(infos))
    THEN walkInfos(path, node, Tail(infos), files)
    ELSE walkInfos(path, node, Tail(infos),
                   files \o <<Join(path, Head(infos))>>)

walkInfos(path, node, infos, files) ==
    IF infos = <<>> THEN [files |-> files, err |-> NoErr]
    ELSE LET name == Head(infos)
             subPath == Join(path, name)
         IN  IF IsDir(node, name)
             THEN LET below == {Tail(p) : p \in {q \in node : Head(q) = name}}
                      subFiles == findAllFiles(subPath,
                                      [exists |-> TRUE, node |-> below])
                  IN  IF subFiles.err # NoErr
                      THEN [files |-> files, err |-> subFiles.err]
                      ELSE walkInfos(path, node, Tail(infos),
                                     files \o subFiles.files)
             ELSE walkInfos(path, node, Tail(infos), files \o <<subPath>>)

\* the loop of ProblemsLackingExample over slugs, with issues so far
RECURSIVE lackingLoop(_, _, _, _, _)
lackingLoop(t, f, d, slugs, issues) ==
    IF slugs = <<>> THEN [result |-> issues, err |-> NoErr]
    ELSE LET problem == Head(slugs)
         IN  IF problem \notin DOMAIN t.dirs
             THEN lackingLoop(t, f, d, Tail(slugs), issues)
             ELSE LET path == t.dirs[problem]
                      files == findAllFiles(path, Resolve(d, t.path, path))
                      found == hasExampleFile(f, files.files)
                  IN  IF files.err # NoErr
                      THEN [result |-> issues, err |-> files.err]
                      ELSE lackingLoop(t, f, d, Tail(slugs),
                               IF ~found.found THEN Append(issues, problem)
                               ELSE issues)

ProblemsLackingExample(t, f, d) ==
    LET c == TrackConfig(f)
    IN  IF c.err # NoErr THEN [result |-> <<>>, err |-> c.err]
        ELSE lackingLoop(t, f, d, ConfigSlugs(c.c), <<>>)

(***************************************************************************)
(* main.go: the command-line driver.                                       *)
(***************************************************************************)
\* the checks of configErrors, in the order of the slice
configErrors ==
    <<"MissingProblems", "UnconfiguredProblems", "ProblemsLackingExample",
      "ForegoneViolations", "DuplicateSlugs">>

\* what a check may return when main calls it
Check(name, t, f, d) ==
    CASE name = "MissingProblems" -> MissingProblems(f, d)
      [] name = "UnconfiguredProblems" -> UnconfiguredProblems(f, d)
      [] name = "ProblemsLackingExample" -> {ProblemsLackingExample(t, f, d)}
      [] name = "ForegoneViolations" -> {ForegoneViolations(f, d)}
      [] name = "DuplicateSlugs" -> {DuplicateSlugs(f)}

\* the loop body without its test of err
checkStepResultOnly(hasErrors, ret) ==
    hasErrors \/ Len(ret.result) > 0

\* the body of main's loop: hasErrors after one check returned ret
checkStep(hasErrors, ret) ==
    hasErrors \/ ret.err # NoErr \/ Len(ret.result) > 0

\* main's loop over checks, where rets[name] is what the check returns;
\* calls is the log of the checks called so far
RECURSIVE runChecks(_, _, _, _)
runChecks(checks, rets, hasErrors, calls) ==
    IF checks = <<>> THEN [hasErrors |-> hasErrors, calls |-> calls]
    ELSE LET ret == rets[Head(checks)]
         IN  runChecks(Tail(checks), rets, checkStep(hasErrors, ret),
                       Append(calls, [check |-> Head(checks),
                                      err |-> ret.err,
                                      n |-> Len(ret.result)]))

\* main from its start to the exit of the process
main(f, d, path, rets) ==
    LET valid == HasValidConfig(f)
        run == runChecks(configErrors, rets, ~valid, <<>>)
    IN  [op |-> "main", valid |-> valid, calls |-> run.calls,
         status |-> IF run.hasErrors THEN 1 ELSE 0,
         ok |-> ~run.hasErrors]

(***************************************************************************)
(* The state machine.  root is the path of the track's directory, file is  *)
(* <root>/config.json, fs the tree under                                   *)
(* <root>/exercises, track the Track a client of the package constructed,  *)
(* and last the call that has just returned, with what it returned, until  *)
(* its caller is done with it.  Calls are atomic, so the filesystem        *)
(* changes between calls.                                                  *)
(***************************************************************************)
SeqsUpTo(S, n) == UNION {[1..k -> S] : k \in 0..n}

ZeroTrack == [path |-> <<>>, dirs |-> NoDirs]

NoCall == [op |-> "none"]

Init ==
    /\ root \in Roots
    /\ \/ \E st \in {"missing", "malformed"} :
              file = [state |-> st, exercises |-> <<>>, deprecated |-> <<>>,
                      foregone |-> <<>>, solution_pattern |-> Absent]
       \/ \E e \in SeqsUpTo(Names, MaxSlugs) :
          \E dp \in SeqsUpTo(Names, MaxSlugs - Len(e)) :
          \E fg \in SeqsUpTo(Names, MaxSlugs - Len(e) - Len(dp)) :
          \E sp \in {Absent, badPattern} :
              file = [state |-> "ok",
                      exercises |-> [i \in 1..Len(e) |-> [slug |-> e[i]]],
                      deprecated |-> dp, foregone |-> fg,
                      solution_pattern |-> sp]
    /\ fs = [exists |-> FALSE, dirs |-> NoDirs]
    /\ track = ZeroTrack
    /\ last = NoCall

\* the environment: a directory with some files appears under exercises/
MkdirAll ==
    \E name \in Names : \E content \in Contents(name) :
        /\ last = NoCall
        /\ name \notin Entries(fs)
        /\ fs' = [exists |-> TRUE,
                  dirs |-> [n \in Entries(fs) \cup {name} |->
                               IF n = name THEN content ELSE fs.dirs[n]]]
        /\ UNCHANGED <<root, file, track, last>>

\* the environment: a directory under exercises/ is removed with all below it
RemoveAll ==
    \E name \in Entries(fs) :
        /\ last = NoCall
        /\ fs' = [fs EXCEPT !.dirs = [n \in Entries(fs) \ {name} |-> fs.dirs[n]]]
        /\ UNCHANGED <<root, file, track, last>>

\* the environment: exercises/ itself is created empty, or removed
MkdirExercises ==
    /\ last = NoCall
    /\ ~fs.exists
    /\ fs' = [exists |-> TRUE, dirs |-> NoDirs]
    /\ UNCHANGED <<root, file, track, last>>

RemoveExercises ==
    /\ last = NoCall
    /\ fs.exists
    /\ fs' = [exists |-> FALSE, dirs |-> NoDirs]
    /\ UNCHANGED <<root, file, track, last>>

CallNewTrack ==
    /\ last = NoCall
    /\ track = ZeroTrack
    /\ LET r == NewTrack(file, fs, root)
       IN  /\ track' = r.t
           /\ last' = [op |-> "NewTrack", err |-> r.err]
    /\ UNCHANGED <<root, file, fs>>

Constructed == track.path # <<>>

CallHasValidConfig ==
    /\ last = NoCall
    /\ Constructed
    /\ last' = [op |-> "HasValidConfig", valid |-> HasValidConfig(file)]
    /\ UNCHANGED <<root, file, fs, track>>

CallMissingProblems ==
    /\ last = NoCall
    /\ Constructed
    /\ \E r \in MissingProblems(file, fs) :
           last' = [op |-> "MissingProblems", result |-> r.result, err |-> r.err]
    /\ UNCHANGED <<root, file, fs, track>>

CallUnconfiguredProblems ==
    /\ last = NoCall
    /\ Constructed
    /\ \E r \in UnconfiguredProblems(file, fs) :
           last' = [op |-> "UnconfiguredProblems", result |-> r.result,
                    err |-> r.err]
    /\ UNCHANGED <<root, file, fs, track>>

CallProblemsLackingExample ==
    /\ last = NoCall
    /\ Constructed
    /\ LET r == ProblemsLackingExample(track, file, fs)
       IN  last' = [op |-> "ProblemsLackingExample", result |-> r.result,
                    err |-> r.err]
    /\ UNCHANGED <<root, file, fs, track>>

CallForegoneViolations ==
    /\ last = NoCall
    /\ Constructed
    /\ LET r == ForegoneViolations(file, fs)
       IN  last' = [op |-> "ForegoneViolations", result |-> r.result,
                    err |-> r.err]
    /\ UNCHANGED <<root, file, fs, track>>

CallDuplicateSlugs ==
    /\ last = NoCall
    /\ Constructed
    /\ LET r == DuplicateSlugs(file)
       IN  last' = [op |-> "DuplicateSlugs", result |-> r.result, err |-> r.err]
    /\ UNCHANGED <<root, file, fs, track>>

\* one run of the program on the track at root
RunMain ==
    /\ last = NoCall
    /\ LET t == NewTrack(file, fs, root).t
       IN  \E r1 \in Check(configErrors[1], t, file, fs) :
           \E r2 \in Check(configErrors[2], t, file, fs) :
           \E r3 \in Check(configErrors[3], t, file, fs) :
           \E r4 \in Check(configErrors[4], t, file, fs) :
           \E r5 \in Check(configErrors[5], t, file, fs) :
               last' = main(file, fs, root,
                            [name \in Range(configErrors) |->
                                CASE name = configErrors[1] -> r1
                                  [] name = configErrors[2] -> r2
                                  [] name = configErrors[3] -> r3
                                  [] name = configErrors[4] -> r4
                                  [] name = configErrors[5] -> r5])
    /\ UNCHANGED <<root, file, fs, track>>

\* the caller is done with what the last call returned
Return ==
    /\ last # NoCall
    /\ last' = NoCall
    /\ UNCHANGED <<root, file, fs, track>>

Next ==
    \/ MkdirAll
    \/ RemoveAll
    \/ MkdirExercises
    \/ RemoveExercises
    \/ CallNewTrack
    \/ CallHasValidConfig
    \/ CallMissingProblems
    \/ CallUnconfiguredProblems
    \/ CallProblemsLackingExample
    \/ CallForegoneViolations
    \/ CallDuplicateSlugs
    \/ RunMain
    \/ Return

Spec == Init /\ [][Next]_vars

(***************************************************************************)
(* What the specification says of the queries, in its own terms.           *)
(***************************************************************************)
ManifestLoads == file.state = "ok"

\* Problems: the slugs of `exercises`
ProblemSlugs == {file.exercises[i].slug : i \in DOMAIN file.exercises}

\* Declared slugs: the slugs of `exercises`, `deprecated` and `foregone`
DeclaredSlugs == ProblemSlugs \cup Range(file.deprecated) \cup Range(file.foregone)

\* Implemented directories: the directories immediately under exercises/
\* whose name does not begin with a dot
ImplementedDirectories == {n \in Entries(fs) : n[1] # "."}

\* the number of the three categories that list the slug
Categories(slug) ==
    (IF slug \in ProblemSlugs THEN 1 ELSE 0)
    + (IF slug \in Range(file.deprecated) THEN 1 ELSE 0)
    + (IF slug \in Range(file.foregone) THEN 1 ELSE 0)

\* the manifest's solution_pattern, with its default
SolutionPattern ==
    IF file.solution_pattern = Absent THEN defaultPattern
    ELSE file.solution_pattern

\* the pattern compiles and finds a match in s
Matches(s) ==
    LET r == Compile(SolutionPattern)
    IN  r.err = NoErr /\ Find(r.re, s)

\* names joined by "/"
RECURSIVE JoinAll(_)
JoinAll(p) ==
    IF Len(p) = 1 THEN p[1] ELSE p[1] \o Slash \o JoinAll(Tail(p))

\* the full path of the file p of the exercise slug
FullPath(slug, p) == JoinAll(<<root, exercisesName, slug>> \o p)

\* the Track still holds what NewTrack would find now; it does whenever the
\* filesystem is as it was when the Track was constructed
SnapshotCurrent == Constructed /\ track = NewTrack(file, fs, root).t

ListQueries ==
    {"MissingProblems", "UnconfiguredProblems", "ProblemsLackingExample",
     "ForegoneViolations", "DuplicateSlugs"}

\* C1: MissingProblems returns, as a set, Problems minus Implemented
\* directories.
C1_MissingIsProblemsMinusDirs ==
    (last.op = "MissingProblems" /\ last.err = NoErr)
        => Range(last.result) = ProblemSlugs \ ImplementedDirectories

\* C2: UnconfiguredProblems returns, as a set, Implemented directories minus
\* Declared slugs.
C2_UnconfiguredIsDirsMinusDeclared ==
    (last.op = "UnconfiguredProblems" /\ last.err = NoErr)
        => Range(last.result) = ImplementedDirectories \ DeclaredSlugs

\* C3: DuplicateSlugs returns a slug if and only if two or more of the
\* three categories list it, in ascending order and each slug once.
C3_DuplicatesAreMultiCategory ==
    (last.op = "DuplicateSlugs" /\ last.err = NoErr)
        => /\ Range(last.result) = {s \in DeclaredSlugs : Categories(s) >= 2}
           /\ \A i \in 1..(Len(last.result) - 1) :
                  StrLess(last.result[i], last.result[i + 1])

\* C4: a slug of `foregone` is in ForegoneViolations exactly once when a
\* non-hidden directory exercises/<slug> exists and not at all when none
\* does; no other slug is in it.
C4_ForegoneOncePerDirectory ==
    (last.op = "ForegoneViolations" /\ last.err = NoErr)
        => /\ \A s \in Range(file.foregone) :
                  Count(last.result, s)
                      = IF s \in ImplementedDirectories THEN 1 ELSE 0
           /\ Range(last.result) \subseteq Range(file.foregone)

\* C5 as claimed: with the filesystem as at construction, a slug of
\* `exercises` with a non-hidden directory is reported by
\* ProblemsLackingExample if and only if no file below the directory has a
\* file name that matches solution_pattern; a slug without a directory is
\* not reported.
C5_LackingIffNoFileNameMatches ==
    (last.op = "ProblemsLackingExample" /\ last.err = NoErr /\ SnapshotCurrent)
        => \A s \in ProblemSlugs :
               IF s \in ImplementedDirectories
               THEN s \in Range(last.result)
                        <=> ~\E p \in fs.dirs[s] : Matches(p[Len(p)])
               ELSE s \in Entries(fs) \/ s \notin Range(last.result)

\* C5 as amended: with the filesystem as at construction and no error
\* returned, a slug of `exercises` with a non-hidden directory is reported
\* by ProblemsLackingExample if and only if no file below the directory has
\* a full path (track root, exercises, slug, subdirectories, file name) in
\* which solution_pattern finds a match; a slug without a directory is not
\* reported.
C5_LackingIffNoFullPathMatches ==
    (last.op = "ProblemsLackingExample" /\ last.err = NoErr /\ SnapshotCurrent)
        => \A s \in ProblemSlugs :
               IF s \in ImplementedDirectories
               THEN s \in Range(last.result)
                        <=> ~\E p \in fs.dirs[s] : Matches(FullPath(s, p))
               ELSE s \in Entries(fs) \/ s \notin Range(last.result)

\* C5 witness: on a filesystem as at construction, the exercise bob whose
\* only file is solution.go was reported, and the exercise example, which
\* has a directory too, was not.
C5_Witness ==
    /\ last.op = "ProblemsLackingExample"
    /\ last.err = NoErr
    /\ SnapshotCurrent
    /\ bob \in ProblemSlugs
    /\ bob \in Entries(fs)
    /\ fs.dirs[bob] = {<<solutionGo>>}
    /\ last.result = <<bob>>
    /\ example \in ProblemSlugs
    /\ example \in Entries(fs)

\* C6: HasValidConfig returns true only when the manifest loaded.
C6_ValidOnlyIfManifestLoads ==
    (last.op = "HasValidConfig" /\ last.valid) => ManifestLoads

\* C7: with a solution_pattern that does not compile and a slug of
\* `exercises` that has a directory, ProblemsLackingExample returns an error.
C7_BadPatternIsReturned ==
    ( /\ last.op = "ProblemsLackingExample"
      /\ ManifestLoads
      /\ Compile(SolutionPattern).err # NoErr
      /\ SnapshotCurrent
      /\ ProblemSlugs \cap ImplementedDirectories # {} )
        => last.err # NoErr

\* C8: each query returns what it would return on a Track constructed on
\* the filesystem as it is when the query is called.
C8_QueriesSeeCurrentFilesystem ==
    LET fresh == NewTrack(file, fs, root).t
    IN  /\ last.op = "ProblemsLackingExample"
            => [result |-> last.result, err |-> last.err]
                   = ProblemsLackingExample(fresh, file, fs)
        /\ last.op = "MissingProblems"
            => [result |-> last.result, err |-> last.err]
                   \in MissingProblems(file, fs)
        /\ last.op = "UnconfiguredProblems"
            => [result |-> last.result, err |-> last.err]
                   \in UnconfiguredProblems(file, fs)
        /\ last.op = "ForegoneViolations"
            => [result |-> last.result, err |-> last.err]
                   = ForegoneViolations(file, fs)

\* C9: a list query that returns an error returns an empty result with it.
C9_NoResultWithError ==
    (last.op \in ListQueries /\ last.err # NoErr) => last.result = <<>>

====
